---- MODULE Spec2Model ----
(***************************************************************************)
(* Typed header codec layer of the headers crates: the Values cursor, the  *)
(* ToValues accumulator, typed_insert / typed_get on the header map, and   *)
(* the catalog types AccessControlAllowHeaders and Referer.                *)
(*                                                                         *)
(* Bytes are one-character strings, a raw value (HeaderValue) and a field  *)
(* name (HeaderName) are sequences of bytes, and the header map is a       *)
(* function from the field names to the ordered raw values stored there.   *)
(***************************************************************************)
EXTENDS Integers, Sequences, FiniteSets, TLC

VARIABLES store, last

vars == <<store, last>>

\* ---------------------------------------------------------------- bounds
\* Raw values present in the map before the first typed operation.
MaxStored == 2
\* Comma-separated items in the raw values the initial map holds under
\* access-control-allow-headers, all values together.
MaxItems == 2
\* Names in an AccessControlAllowHeaders built by from_iter.
MaxNames == 2
\* Calls of append_fmt in one encode of a foreign header.
MaxFmt == 2

\* ---------------------------------------------------------- option values
None == [some |-> FALSE]

Some(v) == [some |-> TRUE, val |-> v]

\* ------------------------------------------------------------ field names
ACCESS_CONTROL_ALLOW_HEADERS == "access-control-allow-headers"

REFERER == "referer"

\* The name of a header type outside the catalog (any implementor of Header).
PROBE_NAME == "x-probe"

FieldNames == {ACCESS_CONTROL_ALLOW_HEADERS, REFERER, PROBE_NAME}

\* The names of the catalog types.
CatalogNames == {ACCESS_CONTROL_ALLOW_HEADERS, REFERER}

\* ------------------------------------------------------------------ bytes
\* HEADER_CHARS of the http crate, restricted to the bytes of the model:
\* a token byte maps to its lower-case form, any other byte to "" (invalid).
HEADER_CHARS(b) ==
  CASE b = "a" -> "a"
    [] b = "b" -> "b"
    [] b = "A" -> "a"
    [] b = "B" -> "b"
    [] OTHER -> ""

\* HeaderName::from_bytes: empty input and any non-token byte are errors,
\* otherwise the name is the input mapped to lower case.
HeaderName_from_bytes(bytes) ==
  IF Len(bytes) = 0 \/ \E i \in 1..Len(bytes) : HEADER_CHARS(bytes[i]) = ""
  THEN None
  ELSE Some([i \in 1..Len(bytes) |-> HEADER_CHARS(bytes[i])])

\* HeaderValue::from_name: the bytes of the name's text.
HeaderValue_from_name(name) == name

\* is_visible_ascii of HeaderValue::from_static (32..126, here the bytes of
\* the model that fall in that range).
is_visible_ascii(b) == b \in {"a", "b", "A", "B", ",", " "}

\* is_valid of HeaderValue::from_shared: every byte from 32 up except 127,
\* and the tab; of the bytes of the model only the line feed "LF" is not.
is_valid(b) == b \in {"a", "b", "A", "B", ",", " ", "xC3", "xA9", "xFF"}

\* HeaderValue::from_shared.
HeaderValue_from_shared(bytes) ==
  IF \A i \in 1..Len(bytes) : is_valid(bytes[i]) THEN Some(bytes) ELSE None

RECURSIVE to_string(_)
\* The bytes of a text (String, &str): UTF-8, one byte for an ASCII
\* character and the two bytes C3 A9 for the character "U+E9".
to_string(text) ==
  IF Len(text) = 0 THEN <<>>
  ELSE (IF Head(text) = "U+E9" THEN <<"xC3", "xA9">> ELSE <<Head(text)>>)
         \o to_string(Tail(text))

\* ----------------------------------------------------- bounded input sets
RECURSIVE JoinItems(_)
\* Items joined with ", " into one raw value.
JoinItems(items) ==
  IF Len(items) = 0 THEN <<>>
  ELSE IF Len(items) = 1 THEN items[1]
  ELSE items[1] \o <<",", " ">> \o JoinItems(Tail(items))

\* Items of the raw values of the initial map: two field names (one in
\* upper case) and an item with an internal space.
Items == {<<"a">>, <<"B">>, <<"a", " ", "a">>}

SeqsUpTo(S, n) == UNION {[1..k -> S] : k \in 0..n}

RawPool == {JoinItems(is) : is \in SeqsUpTo(Items, MaxItems) \ {<<>>}}

\* The number of comma-separated items of a raw value of RawPool.
ItemCount(v) == 1 + Cardinality({i \in 1..Len(v) : v[i] = ","})

RECURSIVE TotalItems(_)
TotalItems(values) ==
  IF Len(values) = 0 THEN 0 ELSE ItemCount(Head(values)) + TotalItems(Tail(values))

\* The raw values the initial map may hold under
\* access-control-allow-headers.
ListPool == {a \in SeqsUpTo(RawPool, MaxStored) : TotalItems(a) <= MaxItems}

\* The field names handed to from_iter (a HeaderName is always lower case).
NamePool == {<<"a">>, <<"b">>}

\* The texts handed to Referer::from_static.
StaticPool == {<<"a">>, <<"a", ",", " ", "B">>}

\* The raw values found under referer and under the foreign name in the
\* initial map.
RefererPool == {<<"a">>, <<"a", ",", " ", "B">>}

ProbePool == {<<"a">>, <<"xC3", "xA9">>}

\* The maps the first typed operation may find: at most MaxStored raw values
\* in all, in any split over the three names.
InitialStores ==
  UNION {UNION {{[n \in FieldNames |->
                    CASE n = ACCESS_CONTROL_ALLOW_HEADERS -> a
                      [] n = REFERER -> r
                      [] OTHER -> p] :
                  p \in SeqsUpTo(ProbePool, MaxStored - Len(a) - Len(r))} :
                r \in SeqsUpTo(RefererPool, MaxStored - Len(a))} :
         a \in ListPool}

\* The texts a foreign encode hands to append_fmt: a legal one that is not
\* ASCII, and one that holds a line feed.
FmtPool == {<<"U+E9">>, <<"a", "LF">>}

\* ------------------------------------------------------- ToValues (write)
\* A ToValues over the entry of one field name: the State tag, and the raw
\* values the entry holds (none: the entry is Vacant). Kept for the
\* properties only: log, the values append was called with; starts, the
\* State at the start of each append; states, the State at construction and
\* after each append; panicked, whether a call panicked.
ToValues_new(map, name) ==
  [state |-> "First", entry |-> map[name], log |-> <<>>,
   starts |-> <<>>, states |-> <<"First">>, panicked |-> FALSE]

\* The accumulator after an append that found it in State from, leaving the
\* values entry and the State to.
Appended(self, value, entry, to) ==
  [self EXCEPT !.state = to, !.entry = entry, !.log = Append(@, value),
               !.starts = Append(@, self.state), !.states = Append(@, to)]

\* unreachable!("ToValues State::Tmp").
Unreachable(self) ==
  [self EXCEPT !.panicked = TRUE, !.starts = Append(@, self.state)]

\* append whose first call on an occupied entry adds to the values already
\* stored instead of replacing them.
append_keep(self, value) ==
  CASE self.state = "First" /\ Len(self.entry) = 0 ->
         Appended(self, value, <<value>>, "Latter")
    [] self.state \in {"First", "Latter"} ->
         Appended(self, value, Append(self.entry, value), "Latter")
    [] OTHER -> Unreachable(self)

\* append that never writes the State back after taking it with
\* mem::replace.
append_leave_tmp(self, value) ==
  CASE self.state = "First" ->
         Appended(self, value, <<value>>, "Tmp")
    [] self.state = "Latter" ->
         Appended(self, value, Append(self.entry, value), "Tmp")
    [] OTHER -> Unreachable(self)

\* ToValues::append.
append(self, value) ==
  CASE self.state = "First" /\ Len(self.entry) > 0 ->
         Appended(self, value, <<value>>, "Latter")
    [] self.state = "First" /\ Len(self.entry) = 0 ->
         Appended(self, value, <<value>>, "Latter")
    [] self.state = "Latter" ->
         Appended(self, value, Append(self.entry, value), "Latter")
    [] OTHER -> Unreachable(self)

\* append_fmt that appends the text whatever bytes it holds.
append_fmt_unchecked(self, fmt) == append(self, to_string(fmt))

\* ToValues::append_fmt: panics when the text is not a legal HeaderValue.
append_fmt(self, fmt) ==
  LET s == to_string(fmt)
      value == HeaderValue_from_shared(s)
  IN IF value.some THEN append(self, value.val)
     ELSE [self EXCEPT !.panicked = TRUE]

\* ---------------------------------------------------------- Values (read)
Values_new(map, name) == [inner |-> map[name], should_exhaust |-> TRUE]

skip_exhaustive_iter_check(self) == [self EXCEPT !.should_exhaust = FALSE]

\* Values::next: the item and the cursor after it.
next(self) ==
  IF Len(self.inner) = 0 THEN [item |-> None, values |-> self]
  ELSE [item |-> Some(Head(self.inner)),
        values |-> [self EXCEPT !.inner = Tail(self.inner)]]

\* Values::next_back.
next_back(self) ==
  IF Len(self.inner) = 0 THEN [item |-> None, values |-> self]
  ELSE [item |-> Some(self.inner[Len(self.inner)]),
        values |-> [self EXCEPT !.inner = SubSeq(self.inner, 1, Len(self.inner) - 1)]]

\* -------------------------------------------- AccessControlAllowHeaders
AccessControlAllowHeaders(vec) == [type |-> "AccessControlAllowHeaders", vec |-> vec]

\* FromIterator<HeaderName>::from_iter.
from_iter(iter) == AccessControlAllowHeaders(iter)

\* AccessControlAllowHeaders::iter.
iter(self) == self.vec

RECURSIVE filter_map_names(_, _, _)
\* The filter_map closure of decode driven to the end of the cursor: every
\* value goes through HeaderName::from_bytes, a failure clears ok and the
\* value is dropped.
filter_map_names(values, vec, ok) ==
  LET n == next(values) IN
  IF ~n.item.some THEN [values |-> n.values, vec |-> vec, ok |-> ok]
  ELSE LET name == HeaderName_from_bytes(n.item.val) IN
       IF name.some
       THEN filter_map_names(n.values, Append(vec, name.val), ok)
       ELSE filter_map_names(n.values, vec, FALSE)

\* decode that forgets the ok flag and keeps the names that parsed.
ACAH_decode_lenient(values) ==
  LET r == filter_map_names(values, <<>>, TRUE) IN
  [header |-> IF Len(r.vec) > 0
              THEN Some(AccessControlAllowHeaders(r.vec)) ELSE None,
   values |-> r.values]

\* AccessControlAllowHeaders::decode: the header (or None) and the cursor
\* as decode leaves it.
ACAH_decode(values) ==
  LET r == filter_map_names(values, <<>>, TRUE) IN
  [header |-> IF Len(r.vec) > 0 /\ r.ok
              THEN Some(AccessControlAllowHeaders(r.vec)) ELSE None,
   values |-> r.values]

RECURSIVE ACAH_encode(_, _)
\* AccessControlAllowHeaders::encode: one append per name, in order.
ACAH_encode(vec, values) ==
  IF Len(vec) = 0 THEN values
  ELSE ACAH_encode(Tail(vec), append(values, HeaderValue_from_name(Head(vec))))

\* ---------------------------------------------------------------- Referer
Referer(value) == [type |-> "Referer", value |-> value]

\* Referer::from_static: panics (None here) on a byte that is not visible
\* ASCII.
Referer_from_static(s) ==
  IF \A i \in 1..Len(s) : is_visible_ascii(s[i]) THEN Some(Referer(s)) ELSE None

\* derive(Header) on the newtype: decode takes exactly one value verbatim.
Referer_decode(values) ==
  LET n == next(values) IN
  [header |-> IF n.item.some THEN Some(Referer(n.item.val)) ELSE None,
   values |-> n.values]

\* derive(Header) on the newtype: encode appends the stored value verbatim.
Referer_encode(self, values) == append(values, self.value)

\* ------------------------------------------------------ HeaderValueString
\* HeaderValue::to_str: the text of the value when every byte is visible
\* ASCII, an error (None) otherwise.
HeaderValue_to_str(val) ==
  IF \A i \in 1..Len(val) : is_visible_ascii(val[i]) THEN Some(val) ELSE None

HeaderValueString(value) == [type |-> "HeaderValueString", value |-> value]

\* from_val that clones the value without looking at to_str.
from_val_unchecked(val) == Some(HeaderValueString(val))

\* HeaderValueString::from_val.
from_val(val) ==
  IF HeaderValue_to_str(val).some THEN Some(HeaderValueString(val)) ELSE None

\* HeaderValueString::from_string.
from_string(src) ==
  LET bytes == to_string(src)
      value == HeaderValue_from_shared(bytes)
  IN IF value.some THEN Some(HeaderValueString(value.val)) ELSE None

\* HeaderValueString::from_static: HeaderValue::from_static panics (None
\* here) on a byte that is not visible ASCII.
from_static(src) ==
  LET bytes == to_string(src) IN
  IF \A i \in 1..Len(bytes) : is_visible_ascii(bytes[i])
  THEN Some(HeaderValueString(bytes)) ELSE None

\* FromStr for HeaderValueString: str::parse::<HeaderValue>, which accepts
\* the bytes of the text when all of them are valid.
from_str(src) ==
  LET bytes == to_string(src) IN
  IF \A i \in 1..Len(bytes) : is_valid(bytes[i])
  THEN Some(HeaderValueString(bytes)) ELSE None

\* TryFromValues for HeaderValueString.
try_from_values(values) ==
  LET n == next(values) IN
  IF ~n.item.some THEN None ELSE from_val(n.item.val)

RECURSIVE IsUtf8(_)
\* Whether bytes are the UTF-8 form of a text: what from_utf8_unchecked
\* takes for granted.
IsUtf8(bytes) ==
  IF Len(bytes) = 0 THEN TRUE
  ELSE IF Head(bytes) \in {"a", "b", "A", "B", ",", " ", "LF"} THEN IsUtf8(Tail(bytes))
  ELSE IF Head(bytes) = "xC3" /\ Len(bytes) >= 2 /\ bytes[2] = "xA9"
       THEN IsUtf8(Tail(Tail(bytes)))
  ELSE FALSE

RECURSIVE from_utf8(_)
\* The text whose UTF-8 form the bytes are.
from_utf8(bytes) ==
  IF Len(bytes) = 0 THEN <<>>
  ELSE IF Head(bytes) = "xC3"
       THEN <<"U+E9">> \o from_utf8(Tail(Tail(bytes)))
       ELSE <<Head(bytes)>> \o from_utf8(Tail(bytes))

\* The texts handed to from_string, from_static and from_str.
TextPool == {<<"a">>, <<"U+E9">>, <<"a", "LF">>}

\* HeaderValueString::as_str: the set of its possible results. On bytes
\* that are not UTF-8 from_utf8_unchecked is undefined behaviour: any text,
\* or anything else ("UB").
as_str(self) ==
  IF IsUtf8(self.value) THEN {from_utf8(self.value)}
  ELSE TextPool \cup {<<"UB">>}

\* ------------------------------------------------------- a foreign Header
RECURSIVE take_front(_, _, _)
take_front(values, n, acc) ==
  IF n = 0 THEN [values |-> values, acc |-> acc]
  ELSE LET r == next(values) IN
       take_front(r.values, n - 1,
                  IF r.item.some THEN Append(acc, r.item.val) ELSE acc)

RECURSIVE take_back(_, _, _)
take_back(values, n, acc) ==
  IF n = 0 THEN [values |-> values, acc |-> acc]
  ELSE LET r == next_back(values) IN
       take_back(r.values, n - 1,
                 IF r.item.some THEN Append(acc, r.item.val) ELSE acc)

\* What an implementation of Header::decode may do with the cursor: call
\* next front times, next_back back times, call skip_exhaustive_iter_check
\* or not (at 0: before reading, 1: between the reads from the front and
\* from the back, 2: after reading), and return a value built from what it
\* read, or None.
Behaviours(n) ==
  {b \in [front : 0..n, back : 0..n, skip : BOOLEAN, at : 0..2, ok : BOOLEAN] :
     b.front + b.back <= n /\ (~b.skip => b.at = 0)}

Probe(read) == [type |-> "Probe", read |-> read]

\* flags is should_exhaust as it stands at each point of the call.
Probe_decode(values, b) ==
  LET v0 == IF b.skip /\ b.at = 0 THEN skip_exhaustive_iter_check(values) ELSE values
      f == take_front(v0, b.front, <<>>)
      v1 == IF b.skip /\ b.at = 1 THEN skip_exhaustive_iter_check(f.values) ELSE f.values
      k == take_back(v1, b.back, f.acc)
      v2 == IF b.skip /\ b.at = 2 THEN skip_exhaustive_iter_check(k.values) ELSE k.values
  IN [header |-> IF b.ok THEN Some(Probe(k.acc)) ELSE None, values |-> v2,
      flags |-> <<values.should_exhaust, v0.should_exhaust, f.values.should_exhaust,
                  v1.should_exhaust, k.values.should_exhaust, v2.should_exhaust>>]

\* A foreign header that formats itself: texts are what its encode hands
\* to append_fmt, one call each.
ProbeFmt(texts) == [type |-> "ProbeFmt", texts |-> texts]

RECURSIVE ProbeFmt_encode(_, _)
\* The calls of append_fmt in order, up to the first that panics.
ProbeFmt_encode(texts, values) ==
  IF Len(texts) = 0 \/ values.panicked THEN values
  ELSE ProbeFmt_encode(Tail(texts), append_fmt(values, Head(texts)))

\* ------------------------------------------------------------ HeaderMapExt
\* typed_insert that removes what the name holds before encode runs.
typed_insert_remove_first(map, name, values) ==
  [map EXCEPT ![name] = IF Len(values.log) = 0 THEN <<>> ELSE values.entry]

\* typed_insert that leaves a map holding the inserted name only.
typed_insert_rebuild(map, name, values) ==
  [n \in DOMAIN map |-> IF n = name THEN values.entry ELSE <<>>]

\* typed_insert, given what the header's encode did to the accumulator.
typed_insert(map, name, values) == [map EXCEPT ![name] = values.entry]

\* typed_get without the check of the cursor.
typed_get_unchecked(d) == IF ~d.header.some THEN None ELSE d.header

\* typed_get that replaces a failed decode by an empty header instead of
\* returning early.
typed_get_or_default(d) ==
  IF ~d.values.should_exhaust \/ ~next(d.values).item.some
  THEN Some(IF d.header.some THEN d.header.val ELSE [type |-> "Probe", read |-> <<>>])
  ELSE None

\* typed_get that looks at the cursor only, whatever should_exhaust says.
typed_get_strict(d) ==
  IF ~d.header.some THEN None
  ELSE IF ~next(d.values).item.some THEN d.header ELSE None

\* typed_get after H::decode returned d: the ? operator, then the check
\* that the cursor was consumed.
typed_get(d) ==
  IF ~d.header.some THEN None
  ELSE IF ~d.values.should_exhaust \/ ~next(d.values).item.some
       THEN d.header
       ELSE None

\* ------------------------------------------------------------ state machine
NoOp == [op |-> "none"]

Init ==
  /\ store \in InitialStores
  /\ last = NoOp

\* The header inserted by the previous operation, when that was a
\* typed_insert of the same catalog type.
PrevInserted(name) ==
  IF last.op = "insert" /\ last.name = name /\ name \in CatalogNames
  THEN Some(last.header) ELSE None

\* A panic in encode is fatal: nothing runs after it.
Running == ~(last.op = "insert" /\ last.panicked)

DoInsert(name, header, values) ==
  /\ Running
  /\ store' = typed_insert(store, name, values)
  /\ last' = [op |-> "insert", name |-> name, header |-> header,
              priorLen |-> Len(store[name]), appended |-> values.log,
              final |-> values.state, before |-> PrevInserted(name),
              starts |-> values.starts, states |-> values.states,
              panicked |-> values.panicked]

InsertACAH ==
  \E vec \in SeqsUpTo(NamePool, MaxNames) :
    LET h == from_iter(vec) IN
    DoInsert(ACCESS_CONTROL_ALLOW_HEADERS, h,
             ACAH_encode(h.vec, ToValues_new(store, ACCESS_CONTROL_ALLOW_HEADERS)))

InsertReferer ==
  \E s \in StaticPool :
    LET h == Referer_from_static(s) IN
    /\ h.some
    /\ DoInsert(REFERER, h.val, Referer_encode(h.val, ToValues_new(store, REFERER)))

InsertProbe ==
  \E texts \in SeqsUpTo(FmtPool, MaxFmt) :
    LET h == ProbeFmt(texts) IN
    DoInsert(PROBE_NAME, h, ProbeFmt_encode(h.texts, ToValues_new(store, PROBE_NAME)))

\* h identifies the implementation of Header, skip_called tells whether its
\* decode called skip_exhaustive_iter_check, flags is should_exhaust from the
\* construction of the cursor to the return of decode.
DoGet(name, h, d, skip_called, flags) ==
  /\ Running
  /\ last' = [op |-> "get", name |-> name, h |-> h, priorLen |-> Len(store[name]),
              decode_calls |-> 1, decoded |-> d.header, skipped |-> ~d.values.should_exhaust,
              skip_called |-> skip_called, flags |-> flags,
              left |-> Len(d.values.inner), result |-> typed_get(d)]
  /\ UNCHANGED store

GetACAH ==
  LET values == Values_new(store, ACCESS_CONTROL_ALLOW_HEADERS)
      d == ACAH_decode(values)
  IN DoGet(ACCESS_CONTROL_ALLOW_HEADERS, "AccessControlAllowHeaders", d, FALSE,
           <<values.should_exhaust, d.values.should_exhaust>>)

GetReferer ==
  LET values == Values_new(store, REFERER)
      d == Referer_decode(values)
  IN DoGet(REFERER, "Referer", d, FALSE,
           <<values.should_exhaust, d.values.should_exhaust>>)

GetProbe ==
  \E b \in Behaviours(Len(store[PROBE_NAME])) :
    LET d == Probe_decode(Values_new(store, PROBE_NAME), b)
    IN DoGet(PROBE_NAME, b, d, b.skip, d.flags)

Next ==
  \/ InsertACAH
  \/ InsertReferer
  \/ InsertProbe
  \/ GetACAH
  \/ GetReferer
  \/ GetProbe

Spec == Init /\ [][Next]_vars

\* ---------------------------------------- HeaderValueString state machine
\* The raw values a HeaderValueString is made from: ASCII, the UTF-8 form
\* of "U+E9", and bytes that are not UTF-8.
ValuePool == {<<"a", " ", "B">>, <<"xC3", "xA9">>, <<"xFF">>, <<"a", "xA9">>}

\* Maps holding raw values of ValuePool under the foreign name.
ValueStores ==
  {[n \in FieldNames |-> IF n = PROBE_NAME THEN p ELSE <<>>] :
     p \in SeqsUpTo(ValuePool, MaxStored)}

InitValueString ==
  /\ store \in ValueStores
  /\ last = NoOp

\* A constructor of HeaderValueString was called: raw is the raw value it
\* was given, if it takes one.
Constructed(ctor, raw, result) ==
  /\ last' = [op |-> "HeaderValueString", ctor |-> ctor, raw |-> raw, result |-> result]
  /\ UNCHANGED store

FromVal == \E val \in ValuePool : Constructed("from_val", Some(val), from_val(val))

FromString == \E src \in TextPool : Constructed("from_string", None, from_string(src))

FromStatic == \E src \in TextPool : Constructed("from_static", None, from_static(src))

FromStr == \E src \in TextPool : Constructed("from_str", None, from_str(src))

TryFromValues ==
  LET values == Values_new(store, PROBE_NAME) IN
  Constructed("try_from_values", next(values).item, try_from_values(values))

\* as_str on the HeaderValueString the last constructor returned.
AsStr ==
  /\ last.op = "HeaderValueString"
  /\ last.result.some
  /\ \E text \in as_str(last.result.val) :
       last' = [op |-> "as_str", self |-> last.result.val, text |-> text]
  /\ UNCHANGED store

NextValueString ==
  \/ FromVal
  \/ FromString
  \/ FromStatic
  \/ FromStr
  \/ TryFromValues
  \/ AsStr

SpecValueString == InitValueString /\ [][NextValueString]_vars

\* ------------------------------------------------------------- properties
\* The decode of the catalog type bound to a name.
CatalogDecode(name, values) ==
  IF name = ACCESS_CONTROL_ALLOW_HEADERS THEN ACAH_decode(values)
  ELSE Referer_decode(values)

\* What typed_get of the catalog type bound to name returns on map.
CatalogGet(map, name) == typed_get(CatalogDecode(name, Values_new(map, name)))

AfterInsert(name) == last.op = "insert" /\ last.name = name

AfterGet(name) == last.op = "get" /\ last.name = name

\* C1 (as claimed): right after typed_insert(h) of a catalog type, typed_get
\* of that type returns Some(h), whatever the map held before.
C1_RoundTrip ==
  \A name \in CatalogNames :
    AfterInsert(name) => CatalogGet(store, name) = Some(last.header)

\* C2 (as claimed): after typed_insert(h1) directly followed by
\* typed_insert(h2) of the same type with h2 different from h1, the raw
\* values under the name are exactly the values the encode of h2 appended.
C2_ReplaceNotDuplicate ==
  \A name \in CatalogNames :
    (AfterInsert(name) /\ last.before.some /\ last.before.val # last.header)
      => store[name] = last.appended

\* C3: when the name holds two or more raw values and decode returned a
\* value with values left in the cursor and without having called
\* skip_exhaustive_iter_check, typed_get returns None.
C3_Exhaustiveness ==
  (last.op = "get" /\ last.priorLen >= 2 /\ last.decoded.some
     /\ last.left > 0 /\ ~last.skipped)
    => last.result = None

C3_Witness ==
  /\ AfterGet(PROBE_NAME)
  /\ last.priorLen >= 2 /\ last.decoded.some /\ ~last.skipped
  /\ last.left > 0 /\ last.left < last.priorLen
  /\ last.result = None

\* ---- the list grammar the claims about the list codec refer to
RECURSIVE SplitComma(_)
\* The pieces of a raw value between its commas.
SplitComma(v) ==
  IF \A i \in 1..Len(v) : v[i] # "," THEN <<v>>
  ELSE LET i == CHOOSE k \in 1..Len(v) :
                  v[k] = "," /\ \A j \in 1..(k - 1) : v[j] # ","
       IN <<SubSeq(v, 1, i - 1)>> \o SplitComma(SubSeq(v, i + 1, Len(v)))

RECURSIVE Trim(_)
\* A piece without its leading and trailing spaces.
Trim(v) ==
  IF Len(v) = 0 THEN v
  ELSE IF v[1] = " " THEN Trim(Tail(v))
  ELSE IF v[Len(v)] = " " THEN Trim(SubSeq(v, 1, Len(v) - 1))
  ELSE v

\* The comma-separated items of one raw value.
ItemsOf(v) == [i \in 1..Len(SplitComma(v)) |-> Trim(SplitComma(v)[i])]

RECURSIVE AllItems(_)
\* The items of all raw values of a name, in order.
AllItems(values) ==
  IF Len(values) = 0 THEN <<>>
  ELSE ItemsOf(Head(values)) \o AllItems(Tail(values))

IsFieldName(item) == HeaderName_from_bytes(item).some

HasInvalidItem(values) ==
  \E i \in 1..Len(AllItems(values)) : ~IsFieldName(AllItems(values)[i])

\* The field names the items of the raw values spell.
NamesOf(values) ==
  [i \in 1..Len(AllItems(values)) |-> HeaderName_from_bytes(AllItems(values)[i]).val]

\* C4 (as claimed): raw values whose comma-separated items are all field
\* names decode to the list of those names in order, however the items are
\* split over raw values: one line "a, b" and the two lines "a", "b" give
\* the same header, and iter yields [a, b] on both.
C4_ListCodecEquivalence ==
  (AfterGet(ACCESS_CONTROL_ALLOW_HEADERS)
     /\ Len(store[ACCESS_CONTROL_ALLOW_HEADERS]) > 0
     /\ ~HasInvalidItem(store[ACCESS_CONTROL_ALLOW_HEADERS]))
    => /\ last.result.some
       /\ iter(last.result.val) = NamesOf(store[ACCESS_CONTROL_ALLOW_HEADERS])

\* C5: when a raw value under the name has a comma-separated item that is
\* not a field name, typed_get of AccessControlAllowHeaders returns None.
C5_InvalidItemRejection ==
  (AfterGet(ACCESS_CONTROL_ALLOW_HEADERS)
     /\ HasInvalidItem(store[ACCESS_CONTROL_ALLOW_HEADERS]))
    => last.result = None /\ last.decoded = None

\* A raw value that is a field name next to one with an invalid item.
C5_Witness ==
  /\ AfterGet(ACCESS_CONTROL_ALLOW_HEADERS)
  /\ \E i, j \in 1..Len(store[ACCESS_CONTROL_ALLOW_HEADERS]) :
       /\ IsFieldName(store[ACCESS_CONTROL_ALLOW_HEADERS][i])
       /\ HasInvalidItem(<<store[ACCESS_CONTROL_ALLOW_HEADERS][j]>>)
  /\ last.result = None

\* C6 (as claimed): typed_insert of an AccessControlAllowHeaders of one or
\* more names leaves exactly one raw value, the names joined with ", ".
C6_EncodeOneValue ==
  (AfterInsert(ACCESS_CONTROL_ALLOW_HEADERS) /\ Len(iter(last.header)) >= 1)
    => store[ACCESS_CONTROL_ALLOW_HEADERS] = <<JoinItems(iter(last.header))>>

\* C7 (as claimed): after typed_insert(h) the raw values under the name are
\* exactly the values encode appended, in append order, whatever the name
\* held before.
C7_InsertOverwrites ==
  last.op = "insert" => store[last.name] = last.appended

\* C8 (as claimed): when the map holds no raw value under the name,
\* typed_get returns None and decode is not invoked.
C8_AbsentWithoutDecode ==
  (last.op = "get" /\ last.priorLen = 0)
    => last.result = None /\ last.decode_calls = 0

\* Every map that differs from the current one under referer only.
RefererStores ==
  {[store EXCEPT ![REFERER] = x] : x \in SeqsUpTo(RefererPool, MaxStored)}

\* C9: Referer decodes from exactly one raw value v, and typed_insert of the
\* decoded header into any map leaves exactly the raw value v under referer.
C9_SingleValueRoundTrip ==
  (AfterGet(REFERER) /\ Len(store[REFERER]) = 1)
    => /\ last.result.some
       /\ \A m \in RefererStores :
            typed_insert(m, REFERER,
                         Referer_encode(last.result.val, ToValues_new(m, REFERER)))[REFERER]
              = <<store[REFERER][1]>>

C9_Witness ==
  /\ AfterGet(REFERER)
  /\ Len(store[REFERER]) = 1
  /\ last.result = Some(Referer(store[REFERER][1]))
  /\ \E m \in RefererStores : Len(m[REFERER]) >= 2

\* C10: typed_get returns a value only when decode returned that value, and
\* returns None whenever decode returned None, with or without
\* skip_exhaustive_iter_check and with or without values left.
C10_NeverPartial ==
  last.op = "get" =>
    /\ last.result.some => last.result = last.decoded
    /\ ~last.decoded.some => last.result = None

\* decode failed after skip_exhaustive_iter_check with values left.
C10_Witness ==
  /\ AfterGet(PROBE_NAME)
  /\ ~last.decoded.some /\ last.skipped /\ last.left > 0
  /\ last.result = None

\* C11: when decode returned a value and called skip_exhaustive_iter_check
\* at any point, typed_get returns that value, values left or not; the flag
\* should_exhaust is true when the cursor is made and, once cleared, stays
\* cleared.
C11_EscapeHatch ==
  last.op = "get" =>
    /\ (last.decoded.some /\ last.skip_called) => last.result = last.decoded
    /\ last.flags[1] = TRUE
    /\ \A i, j \in 1..Len(last.flags) : (i < j /\ ~last.flags[i]) => ~last.flags[j]
    /\ last.skip_called => ~last.flags[Len(last.flags)]

\* decode skipped the check before reading, left values, and got its value
\* through.
C11_Witness ==
  /\ AfterGet(PROBE_NAME)
  /\ last.skip_called /\ ~last.flags[2] /\ last.decoded.some
  /\ last.left > 0 /\ last.left < last.priorLen
  /\ last.result = last.decoded

\* C12: the accumulator of a typed_insert starts in First, is in Latter
\* after every append, never comes back to First, and no append starts in
\* Tmp, so unreachable!() is never executed.
C12_OneWay ==
  last.op = "insert" =>
    /\ last.states[1] = "First"
    /\ \A i \in 2..Len(last.states) : last.states[i] = "Latter"
    /\ \A i \in 1..Len(last.starts) :
         /\ last.starts[i] # "Tmp"
         /\ last.starts[i] = (IF i = 1 THEN "First" ELSE "Latter")
    /\ Len(last.states) = Len(last.appended) + 1
    /\ last.final = last.states[Len(last.states)]

\* Two appends in one encode: First, then Latter twice.
C12_Witness ==
  /\ last.op = "insert"
  /\ last.starts = <<"First", "Latter">>
  /\ last.states = <<"First", "Latter", "Latter">>

RECURSIVE LegalPrefix(_)
\* The texts up to the first that is not a legal header value.
LegalPrefix(texts) ==
  IF Len(texts) = 0 \/ ~HeaderValue_from_shared(to_string(Head(texts))).some
  THEN <<>>
  ELSE <<Head(texts)>> \o LegalPrefix(Tail(texts))

RECURSIVE AppendAll(_, _)
\* append called with the value made of each text in turn.
AppendAll(texts, values) ==
  IF Len(texts) = 0 THEN values
  ELSE AppendAll(Tail(texts), append(values, to_string(Head(texts))))

\* C13: an encode that calls append_fmt leaves the map and the accumulator
\* as append would with the values made of the legal texts before the first
\* illegal one; it panics on that one, which changes neither the map nor
\* the State of the accumulator.
C13_AppendFmt ==
  [][(last'.op = "insert" /\ last'.header.type = "ProbeFmt") =>
       LET texts == last'.header.texts
           legal == LegalPrefix(texts)
           values == AppendAll(legal, ToValues_new(store, PROBE_NAME))
       IN /\ store' = typed_insert(store, PROBE_NAME, values)
          /\ last'.final = values.state
          /\ last'.states = values.states
          /\ last'.appended = values.log
          /\ last'.panicked = (Len(legal) < Len(texts))]_vars

\* append_fmt panicked on the second text after the first was appended
\* over an occupied entry.
C13_Witness ==
  /\ AfterInsert(PROBE_NAME)
  /\ last.panicked /\ last.priorLen > 0
  /\ Len(last.appended) = 1 /\ Len(last.header.texts) = 2
  /\ store[PROBE_NAME] = last.appended
  /\ last.final = "Latter"

\* C14: a typed_insert whose encode performs no append leaves the map
\* exactly as it was, raw values under the name included.
C14_ZeroAppendNoOp ==
  [][(last'.op = "insert" /\ Len(last'.appended) = 0) => store' = store]_vars

\* An AccessControlAllowHeaders of no names inserted over stored values.
C14_Witness ==
  /\ AfterInsert(ACCESS_CONTROL_ALLOW_HEADERS)
  /\ last.header = from_iter(<<>>)
  /\ last.appended = <<>>
  /\ last.priorLen > 0
  /\ Len(store[ACCESS_CONTROL_ALLOW_HEADERS]) = last.priorLen

\* C15: typed_insert changes the raw values under the name of its type
\* only; typed_get changes nothing in the map, and two typed_get of the
\* same type in a row return the same result.
C15_Frame ==
  [][/\ last'.op = "insert" =>
          \A n \in FieldNames \ {last'.name} : store'[n] = store[n]
     /\ last'.op = "get" => store' = store
     /\ (last.op = "get" /\ last'.op = "get" /\ last'.name = last.name
           /\ last'.h = last.h)
          => last'.result = last.result]_vars

\* A Referer inserted into a map that holds values under both other names.
C15_Witness ==
  /\ AfterInsert(REFERER)
  /\ last.priorLen = 0
  /\ Len(store[REFERER]) = 1
  /\ Len(store[ACCESS_CONTROL_ALLOW_HEADERS]) > 0
  /\ Len(store[PROBE_NAME]) > 0

\* C16: every HeaderValueString a constructor returns holds UTF-8 bytes, so
\* as_str is only applied to UTF-8 and returns the text of the bytes; from_val
\* and try_from_values return None for a raw value that is not UTF-8.
C16_ValidText ==
  /\ (last.op = "HeaderValueString" /\ last.result.some)
       => IsUtf8(last.result.val.value)
  /\ last.op = "as_str"
       => IsUtf8(last.self.value) /\ to_string(last.text) = last.self.value
  /\ (last.op = "HeaderValueString" /\ last.raw.some /\ ~IsUtf8(last.raw.val))
       => last.result = None

\* as_str on a HeaderValueString whose text is not ASCII.
C16_Witness ==
  /\ last.op = "as_str"
  /\ last.self.value = <<"xC3", "xA9">>
  /\ last.text = <<"U+E9">>

====
